---- MODULE Spec2Model ----
(***************************************************************************)
(* Model of the data-upload / feature-encoding tool.                       *)
(*                                                                         *)
(*   src/1_Homepage.py                          the upload page            *)
(*   src/pages/modules_for_pages/data_wrangling.py   the pure functions    *)
(*                                                                         *)
(* A dataset (pandas DataFrame) is a sequence of columns.  A column is a   *)
(* record [name, dtype, kind, vals]:                                       *)
(*   name   column label (a string)                                        *)
(*   dtype  str(df[col].dtype), the storage type                           *)
(*   kind   what the cells hold: "digits" (numbers, or text that parses as *)
(*          a number), "dates" (timestamps, or text that parses as one),   *)
(*          "words" (text that parses as neither), "bools"                 *)
(*   vals   one cell code per row, 1..MaxCat; codes are ordered the way    *)
(*          the values they stand for sort, and Str renders a code the way *)
(*          Python's str() renders the value.                              *)
(* Python exceptions are results [ok |-> FALSE, err |-> <exception>].      *)
(***************************************************************************)
EXTENDS Naturals, Sequences, FiniteSets, TLC

VARIABLES session_state, user_file, run_log, call, ret

vars == <<session_state, user_file, run_log, call, ret>>

(* ------------------------------ bounds --------------------------------- *)

\* most columns of a dataset
MaxCols == 3
\* rows of a dataset
NRows == 3
\* most distinct values of a column
MaxCat == 3
\* most rows of an encoding specification (res_df)
MaxSpecRows == 2

Rows == 1..NRows

(* --------------------------- basic helpers ----------------------------- *)

Ok(v) == [ok |-> TRUE, err |-> "", val |-> v]

Raise(e) == [ok |-> FALSE, err |-> e, val |-> <<>>]

Range(s) == {s[i] : i \in DOMAIN s}

\* sequences over S of length lo..hi
SeqsOf(S, lo, hi) == UNION {[1..n -> S] : n \in lo..hi}

Injective(s) == \A i, j \in DOMAIN s : s[i] = s[j] => i = j

\* Python's `s in t` on two strings: s occurs in t as a substring
StrIn(s, t) ==
    \E i \in 1..(Len(t) + 1) :
        /\ i + Len(s) - 1 <= Len(t)
        /\ SubSeq(t, i, i + Len(s) - 1) = s

RECURSIVE Flatten(_)
\* concatenation of a sequence of sequences
Flatten(ss) == IF ss = <<>> THEN <<>> ELSE Head(ss) \o Flatten(Tail(ss))

RECURSIVE Filter(_, _)
\* subsequence of s with the entries that are in set S
Filter(s, S) ==
    IF s = <<>> THEN <<>>
    ELSE (IF Head(s) \in S THEN <<Head(s)>> ELSE <<>>) \o Filter(Tail(s), S)

RECURSIVE SortedSeq(_)
\* the members of a finite set of naturals, ascending (np.unique)
SortedSeq(S) ==
    IF S = {} THEN <<>>
    ELSE LET m == CHOOSE x \in S : \A y \in S : x <= y
         IN  <<m>> \o SortedSeq(S \ {m})

(* ------------------------------ datasets ------------------------------- *)

Categories == {"Numeric", "Categorical", "Date"}

\* the storage-type -> category map the pages pass as dtype_map
dtype_map_inverse ==
    ("float64" :> "Numeric") @@ ("category" :> "Categorical")
    @@ ("object" :> "Categorical") @@ ("int64" :> "Numeric")
    @@ ("datetime64[ns]" :> "Date")

Columns(df) == [i \in DOMAIN df |-> df[i].name]

ColumnNames(df) == {df[i].name : i \in DOMAIN df}

HasColumn(df, c) == c \in ColumnNames(df)

\* df[c]: the column labelled c (labels of a parsed file are distinct)
Col(df, c) == df[CHOOSE i \in DOMAIN df : df[i].name = c]

Digits == <<"1", "2", "3", "4", "5", "6", "7", "8", "9">>

Labels == <<"A", "B", "C", "D", "E", "F", "G", "H", "I">>

\* str(value) of the cell code v of column col
Str(col, v) ==
    CASE col.dtype = "int64" -> Digits[v]
      [] col.dtype = "float64" -> Digits[v] \o ".0"
      [] col.dtype = "datetime64[ns]" ->
            "2020-01-0" \o Digits[v] \o "T00:00:00.000000000"
      [] col.dtype = "bool" -> IF v = 1 THEN "False" ELSE "True"
      [] OTHER ->
            CASE col.kind = "digits" -> Digits[v]
              [] col.kind = "dates" -> "2020-01-0" \o Digits[v]
              [] OTHER -> Labels[v]

(* ------------------------- Type Classifier ------------------------------ *)

\* create_type_df with dtype_map.get(a, "Categorical") in place of
\* dtype_map[a]: an unsupported storage type is classified, not reported
create_type_df_lenient(df, dtype_map) ==
    Ok([i \in DOMAIN df |->
          [Variable |-> df[i].name,
           Type |-> IF df[i].dtype \in DOMAIN dtype_map
                    THEN dtype_map[df[i].dtype] ELSE "Categorical"]])

\* data_wrangling.create_type_df: one (Variable, Type) row per column
create_type_df(df, dtype_map) ==
    IF \E i \in DOMAIN df : df[i].dtype \notin DOMAIN dtype_map
    THEN Raise("KeyError")
    ELSE Ok([i \in DOMAIN df |->
                [Variable |-> df[i].name, Type |-> dtype_map[df[i].dtype]]])

\* data_wrangling.create_type_dict: {Variable: Type}, later rows overwrite
create_type_dict(type_df) ==
    [v \in {type_df[i].Variable : i \in DOMAIN type_df} |->
        type_df[CHOOSE i \in DOMAIN type_df :
                    /\ type_df[i].Variable = v
                    /\ \A j \in DOMAIN type_df :
                          type_df[j].Variable = v => j <= i].Type]

(* --------------------------- Type Caster -------------------------------- *)

NumericDtypes == {"int64", "float64"}

TextDtypes == {"object", "category"}

\* pd.to_datetime(column): timestamps stay, numbers are read as epoch
\* offsets, text must parse as a timestamp
to_datetime(col) ==
    CASE col.dtype = "datetime64[ns]" -> Ok(col)
      [] col.dtype \in NumericDtypes ->
            Ok([col EXCEPT !.dtype = "datetime64[ns]", !.kind = "dates"])
      [] col.dtype \in TextDtypes /\ col.kind = "dates" ->
            Ok([col EXCEPT !.dtype = "datetime64[ns]"])
      [] col.dtype \in TextDtypes -> Raise("ValueError")
      [] OTHER -> Raise("TypeError")

\* column.astype(dtype): any column becomes text; text becomes a number
\* only when every cell parses as one
astype(col, dtype) ==
    CASE dtype \in TextDtypes -> Ok([col EXCEPT !.dtype = dtype])
      [] dtype \in NumericDtypes /\ col.dtype \in NumericDtypes \cup {"bool"} ->
            Ok([col EXCEPT !.dtype = dtype, !.kind = "digits"])
      [] dtype \in NumericDtypes /\ col.dtype \in TextDtypes ->
            IF col.kind = "digits" THEN Ok([col EXCEPT !.dtype = dtype])
            ELSE Raise("ValueError")
      [] dtype = "int64" /\ col.dtype = "datetime64[ns]" ->
            Ok([col EXCEPT !.dtype = dtype, !.kind = "digits"])
      [] OTHER -> Raise("TypeError")

\* df[key] = column: the column keeps its place
SetCol(df, key, col) ==
    [i \in DOMAIN df |-> IF df[i].name = key THEN col ELSE df[i]]

\* a requested-category dictionary is a sequence of (key, cat) pairs with
\* distinct keys, in the dictionary's iteration order; as a mapping:
DictOf(res_dict) ==
    [k \in {res_dict[i].key : i \in DOMAIN res_dict} |->
        res_dict[CHOOSE i \in DOMAIN res_dict : res_dict[i].key = k].cat]

\* the loop body without the test `res_dict[key] != orig_dict[key]`: every
\* requested column is converted
CastOne_always(df, orig_dict, res_dict, dtype_map, i) ==
    LET key == res_dict[i].key
        cat == res_dict[i].cat
    IN  IF key \notin DOMAIN orig_dict THEN Raise("KeyError")
        ELSE IF ~HasColumn(df, key) THEN Raise("KeyError")
        ELSE IF cat = "Date"
             THEN LET c == to_datetime(Col(df, key))
                  IN  IF c.ok THEN Ok(SetCol(df, key, c.val)) ELSE c
        ELSE IF cat \notin DOMAIN dtype_map THEN Raise("KeyError")
        ELSE LET c == astype(Col(df, key), dtype_map[cat])
             IN  IF c.ok THEN Ok(SetCol(df, key, c.val)) ELSE c

\* one pass of the loop body of cast_dtype for the pair at position i
CastOne(df, orig_dict, res_dict, dtype_map, i) ==
    LET key == res_dict[i].key
        cat == res_dict[i].cat
    IN  IF key \notin DOMAIN orig_dict THEN Raise("KeyError")
        ELSE IF cat = orig_dict[key] THEN Ok(df)
        ELSE IF ~HasColumn(df, key) THEN Raise("KeyError")
        ELSE IF cat = "Date"
             THEN LET c == to_datetime(Col(df, key))
                  IN  IF c.ok THEN Ok(SetCol(df, key, c.val)) ELSE c
        ELSE IF cat \notin DOMAIN dtype_map THEN Raise("KeyError")
        ELSE LET c == astype(Col(df, key), dtype_map[cat])
             IN  IF c.ok THEN Ok(SetCol(df, key, c.val)) ELSE c

RECURSIVE CastLoop(_, _, _, _, _)
\* the for loop of cast_dtype from position i on; df is mutated in place, so
\* the result carries the dataset as the loop left it, also when it raised
CastLoop(df, orig_dict, res_dict, dtype_map, i) ==
    IF i > Len(res_dict) THEN [ok |-> TRUE, err |-> "", df |-> df, at |-> i]
    ELSE LET step == CastOne(df, orig_dict, res_dict, dtype_map, i)
         IN  IF step.ok
             THEN CastLoop(step.val, orig_dict, res_dict, dtype_map, i + 1)
             ELSE [ok |-> FALSE, err |-> step.err, df |-> df, at |-> i]

\* cast_dtype working on a copy: a failed call leaves the dataset as it was
cast_dtype_rollback(df, orig_dict, res_dict, dtype_map) ==
    LET loop == CastLoop(df, orig_dict, res_dict, dtype_map, 1)
    IN  IF loop.ok
        THEN [ok |-> TRUE, err |-> "", df |-> loop.df, at |-> loop.at,
              val |-> [df |-> loop.df, orig_dict |-> DictOf(res_dict)]]
        ELSE [ok |-> FALSE, err |-> loop.err, df |-> df, at |-> loop.at,
              val |-> <<>>]

\* data_wrangling.cast_dtype: [ok, err, df (as mutated), at, val];
\* val is the returned (df, orig_dict) pair
cast_dtype(df, orig_dict, res_dict, dtype_map) ==
    LET loop == CastLoop(df, orig_dict, res_dict, dtype_map, 1)
    IN  IF loop.ok
        THEN [ok |-> TRUE, err |-> "", df |-> loop.df, at |-> loop.at,
              val |-> [df |-> loop.df, orig_dict |-> DictOf(res_dict)]]
        ELSE [ok |-> FALSE, err |-> loop.err, df |-> loop.df, at |-> loop.at,
              val |-> <<>>]

(* --------------------------- Column Encoder ----------------------------- *)

\* find_valid_cols: the categorical columns that pass `col not in target_var`
find_valid_cols(df, target_var, dtype_map) ==
    IF \E i \in DOMAIN df : df[i].dtype \notin DOMAIN dtype_map
    THEN Raise("KeyError")
    ELSE Ok(Filter(Columns(df),
                   {df[i].name : i \in {j \in DOMAIN df :
                        /\ dtype_map[df[j].dtype] = "Categorical"
                        /\ ~StrIn(df[j].name, target_var)}}))

\* find_label_type: the category of the target column
find_label_type(df, target_var, dtype_map) ==
    IF ~HasColumn(df, target_var) THEN Raise("KeyError")
    ELSE IF Col(df, target_var).dtype \notin DOMAIN dtype_map
         THEN Raise("KeyError")
    ELSE Ok(dtype_map[Col(df, target_var).dtype])

\* encoder.categories_[0] / encoder.classes_: the distinct values, sorted
Cats(col) == SortedSeq(Range(col.vals))

\* position of v in the sorted categories, from 0
CatIndex(col, v) == Cardinality({c \in Range(col.vals) : c < v})

StrName(s) == [type |-> "str", value |-> s]

ListName(l) == [type |-> "list", value |-> l]

\* one_hot_encoding without drop="first": one indicator per category
one_hot_encoding_no_drop(df, x_column) ==
    IF ~HasColumn(df, x_column) THEN Raise("KeyError")
    ELSE LET col == Col(df, x_column)
             cats == Cats(col)
         IN  Ok([encoded_column |->
                    [j \in DOMAIN cats |->
                        [r \in DOMAIN col.vals |->
                            IF col.vals[r] = cats[j] THEN 1 ELSE 0]],
                 encoded_column_name |->
                    ListName([j \in DOMAIN cats |->
                        x_column \o "_one_hot_" \o Str(col, cats[j])])])

\* one_hot_encoding: OneHotEncoder(drop="first"); the encoded array is kept
\* as the sequence of its columns, each a sequence of row values
one_hot_encoding(df, x_column) ==
    IF ~HasColumn(df, x_column) THEN Raise("KeyError")
    ELSE LET col == Col(df, x_column)
             cats == Cats(col)
         IN  Ok([encoded_column |->
                    [j \in 1..(Len(cats) - 1) |->
                        [r \in DOMAIN col.vals |->
                            IF col.vals[r] = cats[j + 1] THEN 1 ELSE 0]],
                 encoded_column_name |->
                    ListName([j \in 1..(Len(cats) - 1) |->
                        x_column \o "_one_hot_" \o Str(col, cats[j + 1])])])

\* sklearn's type_of_target for target_type="auto" on a label column
TargetType(ycol) ==
    IF Cardinality(Range(ycol.vals)) <= 2 THEN "binary" ELSE "multiclass"

\* the smoothed, cross-fitted statistic TargetEncoder computes is a real
\* number drawn by the library; only the shape of its output is modelled
TargetStatColumn == <<>>

\* tartet_encoding that names the encoded columns '<col>_target' whatever
\* the target type the encoder found
tartet_encoding_one_name(df, x_column, target_column, coltype) ==
    IF ~HasColumn(df, x_column) \/ ~HasColumn(df, target_column)
    THEN Raise("KeyError")
    ELSE LET ycol == Col(df, target_column)
             classes == Cats(ycol)
         IN  IF coltype = "Numeric" \/ TargetType(ycol) = "binary"
             THEN Ok([encoded_column |-> <<TargetStatColumn>>,
                      encoded_column_name |-> StrName(x_column \o "_target")])
             ELSE Ok([encoded_column |->
                        [j \in DOMAIN classes |-> TargetStatColumn],
                      encoded_column_name |-> StrName(x_column \o "_target")])

\* tartet_encoding
tartet_encoding(df, x_column, target_column, coltype) ==
    IF ~HasColumn(df, x_column) \/ ~HasColumn(df, target_column)
    THEN Raise("KeyError")
    ELSE LET ycol == Col(df, target_column)
             classes == Cats(ycol)
         IN  IF coltype = "Numeric"
             THEN Ok([encoded_column |-> <<TargetStatColumn>>,
                      encoded_column_name |-> StrName(x_column \o "_target")])
             ELSE IF TargetType(ycol) = "binary"
             THEN Ok([encoded_column |-> <<TargetStatColumn>>,
                      encoded_column_name |-> StrName(x_column \o "_target")])
             ELSE Ok([encoded_column |->
                        [j \in DOMAIN classes |-> TargetStatColumn],
                      encoded_column_name |->
                        ListName([j \in DOMAIN classes |->
                            x_column \o "_target_" \o Str(ycol, classes[j])])])

\* ordinal_encoding
ordinal_encoding(df, x_column) ==
    IF ~HasColumn(df, x_column) THEN Raise("KeyError")
    ELSE LET col == Col(df, x_column)
         IN  Ok([encoded_column |->
                    <<[r \in DOMAIN col.vals |-> CatIndex(col, col.vals[r])]>>,
                 encoded_column_name |-> StrName(x_column \o "_ordinal")])

\* create_encoded_column with a final `else` that encodes ordinally
create_encoded_column_default(encoding, x_column, df, target_column, y_type) ==
    CASE encoding = "One-Hot" -> one_hot_encoding(df, x_column)
      [] encoding = "Target" ->
            tartet_encoding(df, x_column, target_column, y_type)
      [] OTHER -> ordinal_encoding(df, x_column)

\* create_encoded_column: no branch binds the locals for another encoding,
\* and the return statement then raises UnboundLocalError
create_encoded_column(encoding, x_column, df, target_column, y_type) ==
    CASE encoding = "One-Hot" -> one_hot_encoding(df, x_column)
      [] encoding = "Target" ->
            tartet_encoding(df, x_column, target_column, y_type)
      [] encoding = "Ordinal" -> ordinal_encoding(df, x_column)
      [] OTHER -> Raise("UnboundLocalError")

(* -------------------------- Feature Assembler --------------------------- *)

\* the Numeric columns of df, in dataset order, as feature columns
NumericPart(df, dtype_map) ==
    LET idx == SortedSeq({i \in DOMAIN df : dtype_map[df[i].dtype] = "Numeric"})
    IN  [n \in DOMAIN idx |-> [name |-> df[idx[n]].name, vals |-> df[idx[n]].vals]]

\* encoded_col.columns = [name] or = names, then the frame's columns
NameColumns(enc) ==
    LET names == IF enc.encoded_column_name.type = "str"
                 THEN <<enc.encoded_column_name.value>>
                 ELSE enc.encoded_column_name.value
    IN  IF Len(names) # Len(enc.encoded_column) THEN Raise("ValueError")
        ELSE Ok([j \in DOMAIN names |->
                    [name |-> names[j], vals |-> enc.encoded_column[j]]])

RECURSIVE EncodeRows_prepend(_, _, _, _, _, _)
\* the loop with pd.concat([encoded_col, model_df]): new columns go in front
EncodeRows_prepend(model_df, res_df, df, target_var, y_type, i) ==
    IF i > Len(res_df) THEN Ok(model_df)
    ELSE LET enc == create_encoded_column(res_df[i].Encoding,
                        res_df[i].Variable, df, target_var, y_type)
         IN  IF ~enc.ok THEN enc
             ELSE LET named == NameColumns(enc.val)
                  IN  IF ~named.ok THEN named
                      ELSE EncodeRows_prepend(named.val \o model_df, res_df,
                                              df, target_var, y_type, i + 1)

RECURSIVE EncodeRows(_, _, _, _, _, _)
\* the loop over res_df.iterrows() from row i on
EncodeRows(model_df, res_df, df, target_var, y_type, i) ==
    IF i > Len(res_df) THEN Ok(model_df)
    ELSE LET enc == create_encoded_column(res_df[i].Encoding,
                        res_df[i].Variable, df, target_var, y_type)
         IN  IF ~enc.ok THEN enc
             ELSE LET named == NameColumns(enc.val)
                  IN  IF ~named.ok THEN named
                      ELSE EncodeRows(model_df \o named.val, res_df, df,
                                      target_var, y_type, i + 1)

\* a drop that removes the first column with that label only
DropLabel_first(model_df, label) ==
    LET hits == {j \in DOMAIN model_df : model_df[j].name = label}
        first == CHOOSE j \in hits : \A k \in hits : j <= k
    IN  IF hits = {} THEN model_df
        ELSE SubSeq(model_df, 1, first - 1)
             \o SubSeq(model_df, first + 1, Len(model_df))

\* model_df.drop(target_var, axis=1): every column with that label goes
DropLabel(model_df, label) ==
    Filter(model_df, {model_df[i] : i \in {j \in DOMAIN model_df :
                                              model_df[j].name # label}})

\* create_model_df
create_model_df(res_df, df, target_var, y_type, dtype_map) ==
    IF \E i \in DOMAIN df : df[i].dtype \notin DOMAIN dtype_map
    THEN Raise("KeyError")
    ELSE IF NumericPart(df, dtype_map) = <<>> THEN Raise("ValueError")
    ELSE LET built == EncodeRows(NumericPart(df, dtype_map), res_df, df,
                                 target_var, y_type, 1)
         IN  IF ~built.ok THEN built
             ELSE IF \E i \in DOMAIN built.val : built.val[i].name = target_var
                  THEN Ok(DropLabel(built.val, target_var))
                  ELSE built

(* ----------------------------- Upload page ------------------------------ *)

\* st.file_uploader holds no file
NoFile == [format |-> "none", content |-> <<>>]

\* st.session_state without the key "df"
EmptySession == <<>>

\* pd.read_csv(user_file)
read_csv(file) ==
    IF file.format = "csv" THEN Ok(file.content) ELSE Raise("ParserError")

\* pd.read_excel(user_file)
read_excel(file) ==
    IF file.format = "xlsx" THEN Ok(file.content) ELSE Raise("ValueError")

\* one run of the script 1_Homepage.py, lines 16-24:
\* [session, log (the parsers called, in order), ok, err]
HomepageRun(session, file) ==
    IF file = NoFile
    THEN [session |-> session, log |-> <<>>, ok |-> TRUE, err |-> ""]
    ELSE IF "df" \in DOMAIN session
    THEN [session |-> session, log |-> <<>>, ok |-> TRUE, err |-> ""]
    ELSE LET csv == read_csv(file)
         IN  IF csv.ok
             THEN [session |-> [df |-> csv.val], log |-> <<"read_csv">>,
                   ok |-> TRUE, err |-> ""]
             ELSE LET xl == read_excel(file)
                  IN  IF xl.ok
                      THEN [session |-> [df |-> xl.val],
                            log |-> <<"read_csv", "read_excel">>,
                            ok |-> TRUE, err |-> ""]
                      ELSE [session |-> session,
                            log |-> <<"read_csv", "read_excel">>,
                            ok |-> FALSE, err |-> xl.err]

(* ------------------------------ universes ------------------------------- *)

\* the column labels of the datasets, in the order the files list them
PoolOrder == <<"age", "city", "weight", "city_ordinal">>

NamePool == Range(PoolOrder)

AllDtypes == {"float64", "object", "category", "datetime64[ns]", "bool"}

DefaultKind(dtype) ==
    CASE dtype \in NumericDtypes -> "digits"
      [] dtype = "datetime64[ns]" -> "dates"
      [] dtype = "bool" -> "bools"
      [] OTHER -> "words"

\* a column of NRows rows that cycles through the values 1..k
Pattern(k) == [r \in Rows |-> ((r - 1) % k) + 1]

MkCol(name, dtype, kind, vals) ==
    [name |-> name, dtype |-> dtype, kind |-> kind, vals |-> vals]

PoolIndex(name) == CHOOSE i \in DOMAIN PoolOrder : PoolOrder[i] = name

\* datasets of 1..MaxCols columns of ColSet with distinct labels
DatasetsOf(ColSet) ==
    {df \in SeqsOf(ColSet, 1, MaxCols) : Injective(Columns(df))}

\* the same, the labels in the order of PoolOrder
OrderedDatasetsOf(ColSet) ==
    {df \in SeqsOf(ColSet, 1, MaxCols) :
        \A i, j \in DOMAIN df :
            i < j => PoolIndex(df[i].name) < PoolIndex(df[j].name)}

\* every storage type under every label, in any order; the cells do not
\* matter
SchemaDatasets ==
    DatasetsOf({MkCol(n, d, DefaultKind(d), Pattern(MaxCat)) :
                    n \in NamePool, d \in AllDtypes})

\* numeric columns and text columns of MaxCat distinct values
ModelDatasets ==
    OrderedDatasetsOf(
        {MkCol(n, d, DefaultKind(d), Pattern(MaxCat)) :
            n \in NamePool, d \in {"float64", "object"}})

\* a column "city" with any cells, and a target "weight" that is numeric or
\* holds 1..MaxCat classes
EncodeDatasets ==
    {<<MkCol("city", d, DefaultKind(d), v), y>> :
        d \in {"object", "float64"}, v \in [Rows -> 1..MaxCat],
        y \in {MkCol("weight", "float64", "digits", Pattern(MaxCat))}
              \cup {MkCol("weight", "object", "words", Pattern(k)) :
                        k \in 1..MaxCat}}

CastBodies ==
    {<<"float64", "digits">>, <<"object", "digits">>,
     <<"object", "words">>, <<"object", "dates">>}

\* columns labelled in a fixed order, numbers or text of every kind
CastDatasets ==
    {[i \in 1..n |-> MkCol(PoolOrder[i], b[i][1], b[i][2], Pattern(MaxCat))] :
        n \in 1..MaxCols, b \in [1..MaxCols -> CastBodies]}

\* the category -> storage-type map the recast page passes as dtype_map
cast_map == ("Numeric" :> "float64") @@ ("Categorical" :> "category")

\* requested-category dictionaries over the columns of df
Requests(df) ==
    {r \in SeqsOf([key : ColumnNames(df), cat : Categories], 0, Len(df)) :
        Injective([i \in DOMAIN r |-> r[i].key])}

Encodings == {"One-Hot", "Ordinal", "Target", "Binary"}

\* encoding specifications (res_df) over the columns of df
EncodingSpecs(df) ==
    SeqsOf([Variable : ColumnNames(df), Encoding : Encodings], 0, MaxSpecRows)

UploadFiles ==
    {[format |-> f, content |-> <<MkCol(n, d, DefaultKind(d), Pattern(1))>>] :
        f \in {"csv", "xlsx", "pdf"}, n \in NamePool,
        d \in {"float64", "object"}}

(* ------------------------------- actions -------------------------------- *)

NoCall == [fn |-> "none"]

NoRet == Ok(<<>>)

TheDf == session_state.df

Idle == /\ user_file = NoFile /\ run_log = <<>> /\ call = NoCall /\ ret = NoRet

Init == /\ session_state \in {[df |-> d] : d \in ModelDatasets} /\ Idle

InitTypes == /\ session_state \in {[df |-> d] : d \in SchemaDatasets} /\ Idle

InitEncode == /\ session_state \in {[df |-> d] : d \in EncodeDatasets} /\ Idle

InitCast == /\ session_state \in {[df |-> d] : d \in CastDatasets} /\ Idle

InitUpload == /\ session_state = EmptySession /\ Idle

\* the app is idle: no call is in progress
Ready == call = NoCall

Pure == UNCHANGED <<session_state, user_file, run_log>>

\* the call returns to the page that made it, and the app is idle again
Return ==
    /\ call # NoCall
    /\ call' = NoCall
    /\ ret' = NoRet
    /\ Pure

CreateTypeDf ==
    /\ Ready
    /\ call' = [fn |-> "create_type_df", df |-> TheDf]
    /\ ret' = create_type_df(TheDf, dtype_map_inverse)
    /\ Pure

CreateTypeDict ==
    /\ Ready
    /\ create_type_df(TheDf, dtype_map_inverse).ok
    /\ call' = [fn |-> "create_type_dict", df |-> TheDf]
    /\ ret' = Ok(create_type_dict(create_type_df(TheDf, dtype_map_inverse).val))
    /\ Pure

FindValidCols ==
    /\ Ready
    /\ \E target_var \in NamePool :
        /\ call' = [fn |-> "find_valid_cols", df |-> TheDf,
                    target_var |-> target_var]
        /\ ret' = find_valid_cols(TheDf, target_var, dtype_map_inverse)
        /\ Pure

FindLabelType ==
    /\ Ready
    /\ \E target_var \in NamePool :
        /\ call' = [fn |-> "find_label_type", df |-> TheDf,
                    target_var |-> target_var]
        /\ ret' = find_label_type(TheDf, target_var, dtype_map_inverse)
        /\ Pure

CastDtype ==
    /\ Ready
    /\ create_type_df(TheDf, dtype_map_inverse).ok
    /\ \E res_dict \in Requests(TheDf) :
         LET orig_dict ==
                 create_type_dict(create_type_df(TheDf, dtype_map_inverse).val)
             out == cast_dtype(TheDf, orig_dict, res_dict, cast_map)
         IN  /\ call' = [fn |-> "cast_dtype", df |-> TheDf,
                         orig_dict |-> orig_dict, res_dict |-> res_dict]
             /\ ret' = out
             /\ session_state' = [session_state EXCEPT !.df = out.df]
             /\ UNCHANGED <<user_file, run_log>>

\* y_type as the pages compute it (find_label_type); "Categorical" when the
\* target has no category
YType(df, target_var) ==
    LET t == find_label_type(df, target_var, dtype_map_inverse)
    IN  IF t.ok THEN t.val ELSE "Categorical"

OneHotEncoding ==
    /\ Ready
    /\ \E x_column \in ColumnNames(TheDf) :
        /\ call' = [fn |-> "one_hot_encoding", df |-> TheDf,
                    x_column |-> x_column]
        /\ ret' = one_hot_encoding(TheDf, x_column)
        /\ Pure

OrdinalEncoding ==
    /\ Ready
    /\ \E x_column \in ColumnNames(TheDf) :
        /\ call' = [fn |-> "ordinal_encoding", df |-> TheDf,
                    x_column |-> x_column]
        /\ ret' = ordinal_encoding(TheDf, x_column)
        /\ Pure

TartetEncoding ==
    /\ Ready
    /\ \E x_column \in ColumnNames(TheDf), target_column \in ColumnNames(TheDf) :
        /\ call' = [fn |-> "tartet_encoding", df |-> TheDf,
                    x_column |-> x_column, target_column |-> target_column,
                    coltype |-> YType(TheDf, target_column)]
        /\ ret' = tartet_encoding(TheDf, x_column, target_column,
                                  YType(TheDf, target_column))
        /\ Pure

CreateEncodedColumn ==
    /\ Ready
    /\ \E encoding \in Encodings, x_column \in ColumnNames(TheDf),
       target_column \in ColumnNames(TheDf) :
        /\ call' = [fn |-> "create_encoded_column", df |-> TheDf,
                    encoding |-> encoding, x_column |-> x_column,
                    target_column |-> target_column,
                    y_type |-> YType(TheDf, target_column)]
        /\ ret' = create_encoded_column(encoding, x_column, TheDf,
                        target_column, YType(TheDf, target_column))
        /\ Pure

CreateModelDf ==
    /\ Ready
    /\ \E res_df \in EncodingSpecs(TheDf), target_var \in ColumnNames(TheDf) :
        /\ call' = [fn |-> "create_model_df", df |-> TheDf, res_df |-> res_df,
                    target_var |-> target_var,
                    y_type |-> YType(TheDf, target_var)]
        /\ ret' = create_model_df(res_df, TheDf, target_var,
                        YType(TheDf, target_var), dtype_map_inverse)
        /\ Pure

\* the user puts a file into the uploader and the script runs
UploadFile ==
    \E file \in UploadFiles :
        LET run == HomepageRun(session_state, file)
        IN  /\ user_file' = file
            /\ session_state' = run.session
            /\ run_log' = run.log
            /\ call' = [fn |-> "upload"]
            /\ ret' = IF run.ok THEN Ok(<<>>) ELSE Raise(run.err)

\* the user takes the file out of the uploader and the script runs
RemoveFile ==
    /\ user_file # NoFile
    /\ LET run == HomepageRun(session_state, NoFile)
       IN  /\ user_file' = NoFile
           /\ session_state' = run.session
           /\ run_log' = run.log
           /\ call' = [fn |-> "remove"]
           /\ ret' = Ok(<<>>)

Next == CreateModelDf \/ CreateEncodedColumn \/ Return

NextTypes ==
    CreateTypeDf \/ CreateTypeDict \/ FindValidCols \/ FindLabelType \/ Return

NextEncode == OneHotEncoding \/ OrdinalEncoding \/ TartetEncoding \/ Return

\* one recast of an uploaded dataset: the previous dictionary is computed,
\* or the requested categories are applied
NextCast == CastDtype \/ CreateTypeDict

NextUpload == UploadFile \/ RemoveFile

Spec == Init /\ [][Next]_vars

SpecTypes == InitTypes /\ [][NextTypes]_vars

SpecEncode == InitEncode /\ [][NextEncode]_vars

SpecCast == InitCast /\ [][NextCast]_vars

SpecUpload == InitUpload /\ [][NextUpload]_vars

(* ------------------------- claims: SpecTypes ---------------------------- *)

Covered(df, dtype_map) == \A i \in DOMAIN df : df[i].dtype \in DOMAIN dtype_map

\* C9: create_type_df on a dataset whose storage types the type map all
\* covers returns one row per column, in column order, whose Type is the map
\* applied to the column's storage type, one of Numeric, Categorical, Date;
\* when a storage type is missing from the map the call fails and returns
\* no table.
C9_TypeTable ==
    call.fn = "create_type_df" =>
        IF Covered(call.df, dtype_map_inverse)
        THEN /\ ret.ok
             /\ Len(ret.val) = Len(call.df)
             /\ \A i \in DOMAIN call.df :
                  /\ ret.val[i].Variable = call.df[i].name
                  /\ ret.val[i].Type = dtype_map_inverse[call.df[i].dtype]
                  /\ ret.val[i].Type \in Categories
        ELSE /\ ~ret.ok
             /\ ret.val = <<>>

\* C9 witness: a table was returned for a dataset of MaxCols columns in
\* which all three categories occur.
C9_Witness ==
    /\ call.fn = "create_type_df"
    /\ ret.ok
    /\ Len(call.df) = MaxCols
    /\ {ret.val[i].Type : i \in DOMAIN ret.val} = Categories

\* the columns of df that are Categorical and not labelled target_var, in
\* dataset order
CategoricalNonTarget(df, target_var, dtype_map) ==
    Filter(Columns(df),
           {df[i].name : i \in {j \in DOMAIN df :
                /\ dtype_map[df[j].dtype] = "Categorical"
                /\ df[j].name # target_var}})

\* C2: find_valid_cols returns exactly the Categorical columns whose label
\* differs from the target's, in dataset order (a column whose label is a
\* substring of the target's label included).
C2_ValidCols ==
    (call.fn = "find_valid_cols" /\ ret.ok) =>
        ret.val = CategoricalNonTarget(call.df, call.target_var,
                                       dtype_map_inverse)

(* ------------------------- claims: SpecEncode --------------------------- *)

NClasses(col) == Cardinality(Range(col.vals))

\* C5: tartet_encoding with a Numeric target returns the one name
\* '<col>_target'; with a Categorical target of exactly two classes the one
\* name '<col>_target'; with a Categorical target of three or more classes
\* one name '<col>_target_<class>' per class; and in every case as many
\* names as encoded columns, so that create_model_df can assign them.
C5_TargetNames ==
    (call.fn = "tartet_encoding" /\ ret.ok) =>
        LET ycol == Col(call.df, call.target_column)
            x == call.x_column
            enc == ret.val.encoded_column
            name == ret.val.encoded_column_name
        IN  /\ call.coltype = "Numeric" =>
                 /\ name = StrName(x \o "_target")
                 /\ Len(enc) = 1
            /\ (call.coltype = "Categorical" /\ NClasses(ycol) = 2) =>
                 /\ name = StrName(x \o "_target")
                 /\ Len(enc) = 1
            /\ (call.coltype = "Categorical" /\ NClasses(ycol) >= 3) =>
                 /\ name.type = "list"
                 /\ Len(name.value) = NClasses(ycol)
                 /\ Len(enc) = NClasses(ycol)
                 /\ \A j \in DOMAIN name.value :
                      name.value[j] =
                          x \o "_target_" \o Str(ycol, Cats(ycol)[j])
            /\ NameColumns(ret.val).ok
            /\ Len(NameColumns(ret.val).val) = Len(enc)

\* C5 witness: target encoding against a Categorical target of three
\* classes returned three names.
C5_Witness ==
    /\ call.fn = "tartet_encoding"
    /\ ret.ok
    /\ call.coltype = "Categorical"
    /\ NClasses(Col(call.df, call.target_column)) = 3
    /\ call.x_column # call.target_column
    /\ ret.val.encoded_column_name.type = "list"
    /\ Len(ret.val.encoded_column_name.value) = 3

\* C6: one_hot_encoding of a column with k distinct values returns k-1
\* columns and the k-1 names '<col>_one_hot_<category>' of every category
\* but the first; every value is 0 or 1; a row's values sum to at most 1,
\* and to 0 exactly when the row holds the first category.
C6_OneHot ==
    (call.fn = "one_hot_encoding" /\ ret.ok) =>
        LET col == Col(call.df, call.x_column)
            k == NClasses(col)
            first == CHOOSE c \in Range(col.vals) :
                        \A d \in Range(col.vals) : c <= d
            enc == ret.val.encoded_column
            name == ret.val.encoded_column_name
            ones(r) == {j \in DOMAIN enc : enc[j][r] = 1}
        IN  /\ k >= 1
            /\ Len(enc) = k - 1
            /\ name.type = "list"
            /\ Len(name.value) = k - 1
            /\ Injective(name.value)
            /\ Range(name.value) =
                  {call.x_column \o "_one_hot_" \o Str(col, c) :
                      c \in Range(col.vals) \ {first}}
            /\ \A j \in DOMAIN enc :
                  /\ DOMAIN enc[j] = DOMAIN col.vals
                  /\ \A r \in DOMAIN col.vals : enc[j][r] \in {0, 1}
            /\ \A r \in DOMAIN col.vals :
                  /\ Cardinality(ones(r)) <= 1
                  /\ Cardinality(ones(r)) = 0 <=> col.vals[r] = first

\* C6 witness: a column of three distinct values was encoded into two
\* indicator columns.
C6_Witness ==
    /\ call.fn = "one_hot_encoding"
    /\ ret.ok
    /\ NClasses(Col(call.df, call.x_column)) = 3
    /\ Len(ret.val.encoded_column) = 2

(* -------------------------- claims: SpecCast ---------------------------- *)

\* the call recast one column to the category the previous dictionary
\* already gives it
RecastToOwn ==
    /\ call.fn = "cast_dtype"
    /\ Len(call.res_dict) = 1
    /\ call.res_dict[1].key \in DOMAIN call.orig_dict
    /\ call.res_dict[1].cat = call.orig_dict[call.res_dict[1].key]

\* C3 as the specification states it: recasting a column to its own
\* category converts nothing, leaves the dataset unchanged and returns
\* (D, prevCats), the previous dictionary over all the columns of D.
C3_ReturnsPrevCats ==
    RecastToOwn =>
        /\ ret.ok
        /\ session_state.df = call.df
        /\ ret.val.df = call.df
        /\ ret.val.orig_dict = call.orig_dict

\* C3 amended: recasting a column c to its own category converts nothing,
\* leaves the dataset unchanged and returns (D, R) where R is the requested
\* dictionary {c: prevCats[c]}: R agrees with prevCats on c, and is prevCats
\* exactly when c is the only column prevCats holds.
C3_ReturnsRequest ==
    RecastToOwn =>
        LET c == call.res_dict[1].key
        IN  /\ ret.ok
            /\ session_state.df = call.df
            /\ ret.val.df = call.df
            /\ DOMAIN ret.val.orig_dict = {c}
            /\ ret.val.orig_dict[c] = call.orig_dict[c]
            /\ ret.val.orig_dict = call.orig_dict
                  <=> DOMAIN call.orig_dict = {c}

\* C3 witness: a column of a dataset of several columns was recast to its
\* own category.
C3_Witness ==
    /\ RecastToOwn
    /\ ret.ok
    /\ Len(call.df) >= 2
    /\ call.res_dict[1].cat = "Categorical"

\* the conversion cast_dtype applies to a column for a requested category
Converted(col, cat) ==
    IF cat = "Date" THEN to_datetime(col) ELSE astype(col, cast_map[cat])

\* C4: when the conversion of the column at position i of the request
\* fails, the error reaches the caller and no dictionary is returned; the
\* dataset was mutated in place: every earlier column whose requested
\* category differed is converted, the failing column and every later one
\* are as they were.
C4_NoRollback ==
    (call.fn = "cast_dtype" /\ ~ret.ok) =>
        LET res == call.res_dict
            before == call.df
            after == session_state.df
            i == ret.at
        IN  /\ i \in DOMAIN res
            /\ ret.val = <<>>
            /\ ret.df = after
            /\ Columns(after) = Columns(before)
            /\ ~Converted(Col(before, res[i].key), res[i].cat).ok
            /\ \A j \in 1..(i - 1) :
                  IF res[j].cat # call.orig_dict[res[j].key]
                  THEN /\ Col(after, res[j].key) =
                            Converted(Col(before, res[j].key), res[j].cat).val
                       /\ Col(after, res[j].key).dtype #
                            Col(before, res[j].key).dtype
                  ELSE Col(after, res[j].key) = Col(before, res[j].key)
            /\ \A k \in i..Len(res) :
                  Col(after, res[k].key) = Col(before, res[k].key)
            /\ \A n \in DOMAIN before :
                  before[n].name \notin {res[m].key : m \in DOMAIN res}
                      => after[n] = before[n]

\* C4 witness: the second of three requested conversions failed, after the
\* first had converted its column and with the third still to do.
C4_Witness ==
    /\ call.fn = "cast_dtype"
    /\ ~ret.ok
    /\ Len(call.res_dict) = 3
    /\ ret.at = 2
    /\ call.res_dict[1].cat # call.orig_dict[call.res_dict[1].key]
    /\ call.res_dict[3].cat # call.orig_dict[call.res_dict[3].key]
    /\ session_state.df # call.df

(* ---------------------------- claims: Spec ------------------------------ *)

\* C1: no column of a feature matrix create_model_df returns is labelled
\* with the target variable.
C1_NoTargetColumn ==
    (call.fn = "create_model_df" /\ ret.ok) =>
        \A i \in DOMAIN ret.val : ret.val[i].name # call.target_var

\* C1 witness: a matrix was returned for a numeric target and a
\* specification that asks twice for an encoding whose generated name is
\* the target's label.
C1_Witness ==
    /\ call.fn = "create_model_df"
    /\ ret.ok
    /\ call.y_type = "Numeric"
    /\ Len(call.res_df) = 2
    /\ \A i \in DOMAIN call.res_df :
          /\ call.res_df[i].Encoding = "Ordinal"
          /\ call.res_df[i].Variable \o "_ordinal" = call.target_var

\* the Numeric columns of the call's dataset, in dataset order
NumericColumns == NumericPart(call.df, dtype_map_inverse)

\* the encoded columns of row i of the call's encoding specification
EncodedColumns(i) ==
    NameColumns(create_encoded_column(call.res_df[i].Encoding,
                    call.res_df[i].Variable, call.df, call.target_var,
                    call.y_type).val).val

\* the encoded columns of every row, in the specification's order
AllEncodedColumns == Flatten([i \in DOMAIN call.res_df |-> EncodedColumns(i)])

\* the columns of cols that are not labelled with the call's target
WithoutTarget(cols) ==
    Filter(cols, {cols[i] : i \in {j \in DOMAIN cols :
                                      cols[j].name # call.target_var}})

\* C7 as the specification states it: the feature matrix is the Numeric
\* columns in dataset order, the target removed, followed by the encoded
\* columns of every specification row in the specification's order.
C7_EncodedAllKept ==
    (call.fn = "create_model_df" /\ ret.ok) =>
        ret.val = WithoutTarget(NumericColumns) \o AllEncodedColumns

\* the example of the specification: age, city, weight with target weight
\* and {city: One-Hot} over three cities
IsExample ==
    /\ call.fn = "create_model_df"
    /\ Columns(call.df) = <<"age", "city", "weight">>
    /\ [i \in DOMAIN call.df |-> call.df[i].dtype]
          = <<"float64", "object", "float64">>
    /\ NClasses(call.df[2]) = 3
    /\ call.target_var = "weight"
    /\ call.res_df = <<[Variable |-> "city", Encoding |-> "One-Hot"]>>

\* C7 amended: the feature matrix is the Numeric columns in dataset order
\* followed by the encoded columns of every specification row in the
\* specification's order (a column requested twice appears twice), with
\* every column labelled with the target removed, encoded ones included;
\* in the example its columns are age, city_one_hot_B, city_one_hot_C.
C7_Assembled ==
    /\ (call.fn = "create_model_df" /\ ret.ok) =>
          ret.val = WithoutTarget(NumericColumns \o AllEncodedColumns)
    /\ IsExample =>
          /\ ret.ok
          /\ Columns(ret.val) = <<"age", "city_one_hot_B", "city_one_hot_C">>

\* C7 witness: the example's call returned; and a call with the same row
\* twice is covered by C1_Witness.
C7_Witness == IsExample /\ ret.ok /\ Len(ret.val) = 3

KnownEncodings == {"One-Hot", "Ordinal", "Target"}

\* C8: create_encoded_column with an encoding name other than One-Hot,
\* Ordinal, Target raises and returns neither column nor name; and
\* create_model_df with such a specification row raises and returns no
\* matrix, the rows before it notwithstanding.
C8_UnknownEncoding ==
    /\ (call.fn = "create_encoded_column"
        /\ call.encoding \notin KnownEncodings) =>
          /\ ~ret.ok
          /\ ret.err = "UnboundLocalError"
          /\ ret.val = <<>>
    /\ (call.fn = "create_model_df"
        /\ \E i \in DOMAIN call.res_df :
              call.res_df[i].Encoding \notin KnownEncodings) =>
          /\ ~ret.ok
          /\ ret.val = <<>>
          /\ NumericColumns # <<>> => ret.err = "UnboundLocalError"

\* C8 witness: create_model_df failed on an unknown encoding in the second
\* row, after a first row that encodes.
C8_Witness ==
    /\ call.fn = "create_model_df"
    /\ Len(call.res_df) = 2
    /\ call.res_df[1].Encoding = "One-Hot"
    /\ call.res_df[2].Encoding \notin KnownEncodings
    /\ NumericColumns # <<>>
    /\ ~ret.ok

(* ------------------------- claims: SpecUpload --------------------------- *)

\* the file in the uploader can be parsed, as CSV or as a spreadsheet
Readable(file) == read_csv(file).ok \/ read_excel(file).ok

\* the dataset parsed from a readable file
Parsed(file) ==
    IF read_csv(file).ok THEN read_csv(file).val ELSE read_excel(file).val

\* C10: after any sequence of uploads the session's Dataset is the one
\* parsed from the most recently uploaded file (a new upload replaces the
\* Dataset), and in each run the spreadsheet parse is tried only after the
\* CSV parse was tried and failed.
C10_LatestUploadWins ==
    /\ (user_file # NoFile /\ Readable(user_file)) =>
          /\ "df" \in DOMAIN session_state
          /\ session_state.df = Parsed(user_file)
    /\ run_log \in {<<>>, <<"read_csv">>, <<"read_csv", "read_excel">>}
    /\ run_log = <<"read_csv", "read_excel">> => ~read_csv(user_file).ok

====
